---- MODULE Spec2Model ----
(***************************************************************************)
(* Model of src/panopto-oauth-client.py: PanoptoClient, its lazy OAuth2    *)
(* token cache, the paged fetch loop of get_folder_contents and the CSV    *)
(* projection of export_recordings_to_csv.                                 *)
(*                                                                         *)
(* Python strings that the program builds or defaults (field values, the   *)
(* formatted duration) are sequences of one-character strings, so '' is    *)
(* <<>> and formatting is computed digit by digit.  The authenticator, the *)
(* HTTP server and the file system are the environment: their answers are  *)
(* drawn with \E from the sets defined below.                              *)
(***************************************************************************)
EXTENDS Integers, Sequences, FiniteSets, TLC

(***************************** bounds **************************************)
\* number of export_recordings_to_csv calls made on the one client
MaxCalls == 2
\* largest TotalNumberOfResults an arbitrary server declares
MaxTotal == 2
\* longest Results array an arbitrary server returns in one page
MaxPageLen == 2
\* largest folder a consistent paging server holds
MaxN == 201
\* longest folder of recordings with missing fields
MaxRows == 2
\* largest hour count among the durations formatted
MaxHours == 101

(************************ program constants ********************************)
\* page_size = 100, "Maximum page size for Panopto API"
page_size == 100
\* SERVER_URL of the main block, after rstrip('/')
server_url == "https://southampton.cloud.panopto.eu"
\* the URL path of line 161
ViewerPath == "/Panopto/Pages/Viewer.aspx?id="
\* fieldnames of the csv.DictWriter
fieldnames == <<"Name", "ID", "Duration", "Created", "Folder", "Views", "Status", "URL">>
\* self.access_token = None
None == "<None>"
\* total_recordings before its first assignment (a local not yet bound)
Unbound == -1

(************************** pure helpers ***********************************)
Max(a, b) == IF a >= b THEN a ELSE b
Min(a, b) == IF a <= b THEN a ELSE b

\* ceil(n / p)
CeilDiv(n, p) == (n + p - 1) \div p

DigitChars == <<"0", "1", "2", "3", "4", "5", "6", "7", "8", "9">>

\* str(n) for n >= 0: the decimal digits, most significant first
RECURSIVE Str(_)
Str(n) == IF n < 10 THEN <<DigitChars[n + 1]>>
          ELSE Str(n \div 10) \o <<DigitChars[(n % 10) + 1]>>

\* f"{n:02d}": at least two digits, zero-padded on the left
Pad2(n) == IF Len(Str(n)) < 2 THEN <<"0">> \o Str(n) ELSE Str(n)

\* mutant of FormatDuration: minutes taken from the whole duration
FormatDuration_WholeMinutes(duration_secs) ==
    Pad2(duration_secs \div 3600) \o <<":">> \o Pad2((duration_secs \div 60) % 100)
        \o <<":">> \o Pad2(duration_secs % 60)

\* lines 156-159: hours, minutes, seconds and the f-string
FormatDuration(duration_secs) ==
    LET hours == duration_secs \div 3600
        minutes == (duration_secs % 3600) \div 60
        seconds == duration_secs % 60
    IN Pad2(hours) \o <<":">> \o Pad2(minutes) \o <<":">> \o Pad2(seconds)

\* dict.get(key, default)
Get(rec, key, default) == IF key \in DOMAIN rec THEN rec[key] ELSE default

\* mutant of Falsy: the cached token is never trusted
Falsy_Always(token) == TRUE

\* `not self.access_token`: None and '' are both falsy
Falsy(token) == token = None \/ token = ""

\* lines 77-79: raise_for_status is reached for a status other than 200 and
\* raises HTTPError for 4xx and 5xx only
RaisesForStatus(status) == status # 200 /\ status >= 400 /\ status < 600

\* mutant of RetrievedAll: strict comparison
RetrievedAll_Strict(acc, total) == Len(acc) > total

\* line 108: len(all_recordings) >= total_recordings
RetrievedAll(acc, total) == Len(acc) >= total

\* mutant of NextPage: the page number is not advanced
NextPage_Same(n) == n

\* line 112: page_number += 1
NextPage(n) == n + 1

(************************** recordings *************************************)
\* the keys of a recording that the export reads
Fields == {"Name", "Id", "Duration", "CreatedDate", "ParentFolderId", "ViewerCount", "State"}

\* a recording carrying every field the export reads
RecFull(i) ==
    [Name |-> <<"n">> \o Str(i), Id |-> <<"r">> \o Str(i), Duration |-> 3725,
     CreatedDate |-> <<"d">> \o Str(i), ParentFolderId |-> <<"f">>,
     ViewerCount |-> 7, State |-> <<"s">>]

\* the recording rec with only the keys in S present
Restrict(rec, S) == [k \in S |-> rec[k]]

\* the k-th recording a server hands out, complete or lacking its Id
Item(k, flavor) == IF flavor = "full" THEN RecFull(k) ELSE Restrict(RecFull(k), Fields \ {"Id"})

\* folders served in pages by a consistent server: N = 0..MaxN recordings
PagedFolders == {[i \in 1..n |-> RecFull(i)] : n \in 0..MaxN}

\* folders in which one recording lacks an arbitrary subset of its fields and
\* the others are complete or lack only Id
FieldFolders ==
    LET Variants == {Restrict(RecFull(1), S) : S \in SUBSET Fields}
        Plain == {RecFull(2), Restrict(RecFull(2), Fields \ {"Id"})}
    IN UNION {{[i \in 1..n |-> IF i = k THEN v ELSE p[i]] :
                  k \in 1..n, v \in Variants, p \in [1..n -> Plain]} : n \in 1..MaxRows}

\* the integer durations formatted: every hour count up to MaxHours with
\* minutes and seconds at their edges (3725 = 1 h 2 min 5 s among them)
Durations == {h * 3600 + m * 60 + s : h \in 0..MaxHours, m \in {0, 2, 59}, s \in {0, 5, 59}}

\* one-recording folders, one per duration
DurationFolders == {<<[RecFull(1) EXCEPT !.Duration = d]>> : d \in Durations}

(**************************** environment **********************************)
\* what get_access_token_authorization_code_grant may do: return a token
\* (possibly the empty string) or raise
AuthError == "<AuthError>"
AuthResults(srv) == IF srv = "arbitrary" THEN {"", "tokA", AuthError} ELSE {"tokA"}

\* a response as the loop sees it: requests.get raising (kind "transport") or
\* an HTTP response with a status and a body that is not JSON ("malformed"),
\* JSON but not an object ("nondict"), or an object with optional keys
Response(kind, status, body, hasResults, results, hasTotal, total) ==
    [kind |-> kind, status |-> status, body |-> body, hasResults |-> hasResults,
     Results |-> results, hasTotal |-> hasTotal, Total |-> total]

NoResponse == Response("none", 0, "none", FALSE, <<>>, FALSE, 0)

ObjectResponse(status, hasResults, results, hasTotal, total) ==
    Response("http", status, "object", hasResults, results, hasTotal, total)

\* a server that holds `fld` and serves page n of size p with the true total
ConsistentResponse(fld, n, p) ==
    ObjectResponse(200, TRUE, SubSeq(fld, (n - 1) * p + 1, Min(n * p, Len(fld))),
                   TRUE, Len(fld))

\* a server free to answer anything within the bounds: a transport failure, an
\* error status, a body that does not parse or is no object, or an object whose
\* Results (the next n recordings after the `sent` it has handed out, all
\* complete or all lacking Id) and TotalNumberOfResults are unrelated, either
\* key possibly absent
ArbitraryResponses(sent) ==
    LET page(n, flavor) == [i \in 1..n |-> Item(sent + i, flavor)]
        pages == {page(n, f) : n \in 0..MaxPageLen, f \in {"full", "noId"}}
    IN {Response("transport", 0, "none", FALSE, <<>>, FALSE, 0),
        Response("http", 500, "none", FALSE, <<>>, FALSE, 0),
        Response("http", 200, "malformed", FALSE, <<>>, FALSE, 0),
        Response("http", 200, "nondict", FALSE, <<>>, FALSE, 0)}
       \cup {ObjectResponse(200, TRUE, r, TRUE, t) : r \in pages, t \in 0..MaxTotal}
       \cup {ObjectResponse(204, TRUE, page(1, "full"), TRUE, t) : t \in 0..MaxTotal}
       \cup {ObjectResponse(200, FALSE, <<>>, TRUE, t) : t \in 0..MaxTotal}
       \cup {ObjectResponse(200, TRUE, r, FALSE, 0) : r \in pages}

Responses(srv, fld, sent, req) ==
    IF srv = "consistent" THEN {ConsistentResponse(fld, req.pageNumber, req.pageSize)}
    ELSE ArbitraryResponses(sent)

(*************************** get_folder_contents ***************************)
\* the body of the while loop for one response: the new accumulator, total
\* and page number, and why the loop goes on or ends
\*   "error"    lines 77-79, 84-87, 114-119: break on a failure
\*   "empty"    lines 101-103: break on an empty page
\*   "complete" lines 108-110: break on len(all_recordings) >= total
\*   "continue" line 112
Handle(resp, acc, total, page) ==
    LET broke(why) == [all |-> acc, total |-> total, page |-> page, stop |-> why]
    IN IF resp.kind = "transport" THEN broke("error")
       ELSE IF RaisesForStatus(resp.status) THEN broke("error")
       ELSE IF resp.body = "malformed" THEN broke("error")
       ELSE IF resp.body # "object" THEN broke("error")
       ELSE LET results == IF resp.hasResults THEN resp.Results ELSE <<>>
                tot == IF resp.hasTotal THEN resp.Total ELSE 0
                grown == acc \o results
            IN IF results = <<>>
               THEN [all |-> acc, total |-> tot, page |-> page, stop |-> "empty"]
               ELSE IF RetrievedAll(grown, tot)
               THEN [all |-> grown, total |-> tot, page |-> page, stop |-> "complete"]
               ELSE [all |-> grown, total |-> tot, page |-> NextPage(page), stop |-> "continue"]

\* what a call hands to its caller: a value, or an exception by name
Returned(v) == [raised |-> "none", value |-> v]
Raised(e) == [raised |-> e, value |-> <<>>]
Pending == [raised |-> "pending", value |-> <<>>]

\* lines 121-122: the summary print reads total_recordings, which is bound only
\* once a response object has been parsed (line 95); then return all_recordings
FinalReturn(acc, total) ==
    IF total = Unbound THEN Raised("UnboundLocalError") ELSE Returned(acc)

(************************ export_recordings_to_csv *************************)
\* line 161: recording['Id'] raises KeyError when the key is absent
RowRaises(rec) == "Id" \notin DOMAIN rec

\* lines 155-172: the row written for one recording (the csv writer applies
\* str to the integer view count)
RowOf(rec) ==
    [Name |-> Get(rec, "Name", <<>>), ID |-> Get(rec, "Id", <<>>),
     Duration |-> FormatDuration(Get(rec, "Duration", 0)),
     Created |-> Get(rec, "CreatedDate", <<>>),
     Folder |-> Get(rec, "ParentFolderId", <<>>),
     Views |-> Str(Get(rec, "ViewerCount", 0)),
     Status |-> Get(rec, "State", <<>>),
     URL |-> [base |-> server_url, path |-> ViewerPath, id |-> rec["Id"]]]

\* lines 154-172: rows are written in order until a recording raises; the
\* rows before it stay in the file, which the with-block closes
WriteRows(recs) ==
    LET bad == {i \in 1..Len(recs) : RowRaises(recs[i])}
        n == IF bad = {} THEN Len(recs)
             ELSE (CHOOSE i \in bad : \A k \in bad : i <= k) - 1
    IN [rows |-> [i \in 1..n |-> RowOf(recs[i])],
        err |-> IF bad = {} THEN "none" ELSE "KeyError"]

NoFile == [exists |-> FALSE, header |-> <<>>, rows |-> <<>>]

\* mutant of Export: the `if not recordings: return` guard is missing
Export_NoEmptyCheck(fr, file, io_ok) ==
    IF fr.raised # "none" THEN [err |-> fr.raised, opened |-> FALSE, file |-> file]
    ELSE IF ~io_ok THEN [err |-> "OSError", opened |-> TRUE, file |-> file]
    ELSE LET w == WriteRows(fr.value)
         IN [err |-> w.err, opened |-> TRUE,
             file |-> [exists |-> TRUE, header |-> fieldnames, rows |-> w.rows]]

\* lines 128-178 after get_folder_contents has returned or raised: `fr` is
\* its result, `file` the output file before the call, io_ok whether open()
\* succeeds
Export(fr, file, io_ok) ==
    IF fr.raised # "none" THEN [err |-> fr.raised, opened |-> FALSE, file |-> file]
    ELSE IF fr.value = <<>> THEN [err |-> "none", opened |-> FALSE, file |-> file]
    ELSE IF ~io_ok THEN [err |-> "OSError", opened |-> TRUE, file |-> file]
    ELSE LET w == WriteRows(fr.value)
         IN [err |-> w.err, opened |-> TRUE,
             file |-> [exists |-> TRUE, header |-> fieldnames, rows |-> w.rows]]

(******************************* state *************************************)
VARIABLES
    server,           \* environment: "arbitrary" or "consistent" server
    folder,           \* environment: what a consistent server holds
    access_token,     \* self.access_token
    token_calls,      \* history: invocations of the authenticator's get-token
    calls,            \* history: export_recordings_to_csv calls started
    pc,               \* where the current call stands
    headers,          \* local `headers` of get_folder_contents
    page_number,      \* local `page_number`
    all_recordings,   \* local `all_recordings`
    total_recordings, \* local `total_recordings`
    requests,         \* history: the page requests issued by the current call
    delivered,        \* history: the recordings the server has sent in this call
    first_response,   \* history: the response to the first request of the call
    last_response,    \* local `response` / `data`: the latest response
    stop,             \* history: why the loop ended
    fetch_result,     \* what get_folder_contents handed to its caller
    export_result,    \* what export_recordings_to_csv handed to its caller
    csvfile,          \* the output file on disk
    origin            \* history: how the run that wrote csvfile ended

vars == <<server, folder, access_token, token_calls, calls, pc, headers, page_number,
          all_recordings, total_recordings, requests, delivered, first_response,
          last_response, stop, fetch_result, export_result, csvfile, origin>>

env == <<server, folder>>

\* the request headers of _get_headers
Headers(token) == [Authorization |-> <<"Bearer", token>>, ContentType |-> "application/json"]
NoHeaders == Headers("<unset>")

\* export_recordings_to_csv has not ended
NoExport == [ended |-> FALSE, err |-> "none", opened |-> FALSE]

\* no run has written the output file
NoOrigin == [wrote |-> FALSE, aborted |-> FALSE, err |-> "none"]

\* __init__ (lines 18-27) and the state before the first call
InitWith(srv, folders) ==
    /\ server = srv
    /\ folder \in folders
    /\ access_token = None
    /\ token_calls = 0
    /\ calls = 0
    /\ pc = "idle"
    /\ headers = NoHeaders
    /\ page_number = 1
    /\ all_recordings = <<>>
    /\ total_recordings = Unbound
    /\ requests = <<>>
    /\ delivered = <<>>
    /\ first_response = NoResponse
    /\ last_response = NoResponse
    /\ stop = "none"
    /\ fetch_result = Pending
    /\ export_result = NoExport
    /\ csvfile = NoFile
    /\ origin = NoOrigin

Init == InitWith("arbitrary", {<<>>})
InitPaged == InitWith("consistent", PagedFolders)
InitFields == InitWith("consistent", FieldFolders)
InitDuration == InitWith("consistent", DurationFolders)

(****************************** actions ************************************)
\* the caller invokes client.export_recordings_to_csv (lines 125-129), which
\* enters get_folder_contents with fresh locals (lines 52-54)
CallExport ==
    /\ pc = "idle"
    /\ calls < MaxCalls
    /\ calls' = calls + 1
    /\ pc' = "headers"
    /\ headers' = NoHeaders
    /\ page_number' = 1
    /\ all_recordings' = <<>>
    /\ total_recordings' = Unbound
    /\ requests' = <<>>
    /\ delivered' = <<>>
    /\ first_response' = NoResponse
    /\ last_response' = NoResponse
    /\ stop' = "none"
    /\ fetch_result' = Pending
    /\ export_result' = NoExport
    /\ UNCHANGED <<env, access_token, token_calls, csvfile, origin>>

\* line 47 with _get_headers and _ensure_authenticated (lines 29-42): the
\* token is fetched when none is cached; an authenticator failure leaves
\* get_folder_contents as an exception (line 47 is outside the try)
GetHeaders ==
    /\ pc = "headers"
    /\ IF Falsy(access_token)
       THEN \E r \in AuthResults(server) :
              /\ token_calls' = token_calls + 1
              /\ IF r = AuthError
                 THEN /\ fetch_result' = Raised("AuthError")
                      /\ pc' = "returned"
                      /\ UNCHANGED <<access_token, headers>>
                 ELSE /\ access_token' = r
                      /\ headers' = Headers(r)
                      /\ pc' = "loop"
                      /\ UNCHANGED fetch_result
       ELSE /\ headers' = Headers(access_token)
            /\ pc' = "loop"
            /\ UNCHANGED <<access_token, token_calls, fetch_result>>
    /\ UNCHANGED <<env, calls, page_number, all_recordings, total_recordings, requests,
                   delivered, first_response, last_response, stop, export_result, csvfile,
                   origin>>

\* lines 57-71: requests.get for the current page
SendRequest ==
    /\ pc = "loop"
    /\ requests' = Append(requests, [pageNumber |-> page_number, pageSize |-> page_size,
                                     sortField |-> "CreatedDate", sortOrder |-> "Desc",
                                     headers |-> headers])
    /\ pc' = "waiting"
    /\ UNCHANGED <<env, access_token, token_calls, calls, headers, page_number,
                   all_recordings, total_recordings, delivered, first_response,
                   last_response, stop, fetch_result, export_result, csvfile, origin>>

\* lines 73-119: the response arrives and the rest of the loop body runs
HandleResponse ==
    /\ pc = "waiting"
    /\ \E resp \in Responses(server, folder, Len(delivered), requests[Len(requests)]) :
          LET h == Handle(resp, all_recordings, total_recordings, page_number)
          IN /\ all_recordings' = h.all
             /\ total_recordings' = h.total
             /\ page_number' = h.page
             /\ stop' = h.stop
             /\ pc' = IF h.stop = "continue" THEN "loop" ELSE "exit"
             /\ last_response' = resp
             /\ first_response' = IF Len(requests) = 1 THEN resp ELSE first_response
             /\ delivered' = delivered \o resp.Results
    /\ UNCHANGED <<env, access_token, token_calls, calls, headers, requests,
                   fetch_result, export_result, csvfile, origin>>

\* lines 121-122: the summary line and the return
FetchReturn ==
    /\ pc = "exit"
    /\ fetch_result' = FinalReturn(all_recordings, total_recordings)
    /\ pc' = "returned"
    /\ UNCHANGED <<env, access_token, token_calls, calls, headers, page_number,
                   all_recordings, total_recordings, requests, delivered, first_response,
                   last_response, stop, export_result, csvfile, origin>>

\* lines 130-178: the rest of export_recordings_to_csv, which ends the call
ExportWrite ==
    /\ pc = "returned"
    /\ \E io_ok \in BOOLEAN :
          LET e == Export(fetch_result, csvfile, io_ok)
          IN /\ csvfile' = e.file
             /\ export_result' = [ended |-> TRUE, err |-> e.err, opened |-> e.opened]
             /\ origin' = IF e.file.exists /\ e.opened /\ e.err # "OSError"
                          THEN [wrote |-> TRUE, aborted |-> (stop = "error"), err |-> e.err]
                          ELSE origin
    /\ pc' = "idle"
    /\ UNCHANGED <<env, access_token, token_calls, calls, headers, page_number,
                   all_recordings, total_recordings, requests, delivered, first_response,
                   last_response, stop, fetch_result>>

Next ==
    \/ CallExport
    \/ GetHeaders
    \/ SendRequest
    \/ HandleResponse
    \/ FetchReturn
    \/ ExportWrite

\* any server, failing authenticator and file system
Spec == Init /\ [][Next]_vars
\* the program runs on: a started call is carried through, a request is answered
FairSpec == Init /\ [][Next]_vars /\ WF_vars(Next)
\* a consistent server paging a folder of N recordings
SpecPaged == InitPaged /\ [][Next]_vars
\* a consistent server whose recordings lack fields
SpecFields == InitFields /\ [][Next]_vars
\* a consistent server with one recording per duration
SpecDuration == InitDuration /\ [][Next]_vars

(***************************************************************************)
(* Claims                                                                  *)
(***************************************************************************)
\* get_folder_contents has returned or raised
Finished == fetch_result.raised # "pending"

\* the response was parsed: no exception before the Results are read
Succeeded(resp) ==
    resp.kind = "http" /\ ~(resp.status >= 400 /\ resp.status < 600) /\ resp.body = "object"

\* data.get('Results', []) and data.get('TotalNumberOfResults', 0) of a response
ResultsOf(resp) == IF resp.hasResults THEN resp.Results ELSE <<>>
DeclaredTotal(resp) == IF resp.hasTotal THEN resp.Total ELSE 0

\* C1 (as claimed): a folder of N recordings served consistently in pages of
\* page_size is returned whole and in order after exactly ceil(N / page_size)
\* requests, N = 0 included.
C1_Original ==
    pc = "returned" =>
        /\ fetch_result = Returned(folder)
        /\ Len(requests) = CeilDiv(Len(folder), page_size)

\* C1 (amended): the folder is returned whole and in server order, the pages
\* are requested as 1, 2, ..., and the number of requests is
\* max(1, ceil(N / page_size)): one request is issued even when N = 0.
C1_PagedFetch ==
    pc = "returned" =>
        /\ fetch_result = Returned(folder)
        /\ Len(requests) = Max(1, CeilDiv(Len(folder), page_size))
        /\ \A i \in 1..Len(requests) : requests[i].pageNumber = i

\* a folder of exactly two full pages was fetched with two requests
C1_Witness ==
    /\ pc = "returned"
    /\ Len(folder) = 2 * page_size
    /\ Len(requests) = 2
    /\ fetch_result.value = folder

\* C2: when the request for page k fails, get_folder_contents returns
\* normally with exactly the recordings of pages 1..k-1, for every k >= 1.
C2_FailureReturnsPartial ==
    (pc = "returned" /\ stop = "error") => fetch_result = Returned(delivered)

\* C3: a run whose fetch was aborted by an error and a run that fetched every
\* page never leave the caller of export_recordings_to_csv with the same raised
\* error and the same output file.  `origin` tells how the run that wrote the
\* file on disk ended; the step is the end of a later run that fetched every
\* page of a listing whose total matched.
C3_AbortedDistinguishable ==
    [][(/\ pc = "returned" /\ pc' = "idle"
        /\ origin.wrote /\ origin.aborted
        /\ stop = "complete" /\ total_recordings = Len(all_recordings)
        /\ export_result'.opened
        /\ export_result'.err = origin.err)
       => csvfile' # csvfile]_vars

\* the first request of the call was answered by a parsed response object
FirstParsed == requests # <<>> /\ Succeeded(first_response)

\* C4 (as claimed): a first page declaring TotalNumberOfResults = 0, or
\* holding Results = [], each alone, makes the fetch return the empty sequence
\* and the export open no file and raise nothing.
C4_Original ==
    (/\ Finished /\ FirstParsed
     /\ \/ (first_response.hasTotal /\ first_response.Total = 0)
        \/ ResultsOf(first_response) = <<>>)
    => /\ fetch_result = Returned(<<>>)
       /\ export_result.ended =>
             (~export_result.opened /\ export_result.err = "none")

\* C4 (amended): an empty Results on the first page, whatever the total,
\* ends the loop after one request with the empty sequence, and the export
\* opens no file and raises nothing; a declared total of 0 with non-empty
\* Results ends the loop after one request with those recordings returned.
C4_EmptyFirstPage ==
    (Finished /\ FirstParsed) =>
        /\ ResultsOf(first_response) = <<>> =>
              /\ fetch_result = Returned(<<>>)
              /\ Len(requests) = 1
              /\ export_result.ended =>
                    /\ ~export_result.opened
                    /\ export_result.err = "none"
                    /\ (calls = 1 => csvfile = NoFile)
        /\ (ResultsOf(first_response) # <<>> /\ DeclaredTotal(first_response) = 0) =>
              /\ fetch_result = Returned(first_response.Results)
              /\ Len(requests) = 1

\* the first page was empty although the server declared a positive total,
\* and the export ended without opening the file
C4_Witness ==
    /\ export_result.ended
    /\ FirstParsed
    /\ first_response.Results = <<>>
    /\ first_response.hasTotal /\ first_response.Total > 0
    /\ ~export_result.opened

\* the row the claim expects for a recording: each field, or its default
ExpectedDefaults(rec, row) ==
    /\ row.Name = (IF "Name" \in DOMAIN rec THEN rec.Name ELSE <<>>)
    /\ row.ID = (IF "Id" \in DOMAIN rec THEN rec.Id ELSE <<>>)
    /\ row.Created = (IF "CreatedDate" \in DOMAIN rec THEN rec.CreatedDate ELSE <<>>)
    /\ row.Status = (IF "State" \in DOMAIN rec THEN rec.State ELSE <<>>)
    /\ ("ViewerCount" \notin DOMAIN rec => row.Views = <<"0">>)
    /\ ("Duration" \notin DOMAIN rec =>
            row.Duration = <<"0", "0", ":", "0", "0", ":", "0", "0">>)

\* C5: whatever optional fields (Name, ID, Duration, Created, Views, Status)
\* the fetched recordings lack, the export ends without error having written
\* the header and one row per recording, in order, with the defaults.
C5_MissingFieldsDefaulted ==
    (export_result.ended /\ export_result.err # "OSError" /\ folder # <<>>) =>
        /\ export_result.err = "none"
        /\ csvfile.exists
        /\ csvfile.header = fieldnames
        /\ Len(csvfile.rows) = Len(folder)
        /\ \A i \in 1..Len(csvfile.rows) : ExpectedDefaults(folder[i], csvfile.rows[i])

(* C6: the Duration column *)
\* the duration of the one recording served and the Duration column written
DurationIn == folder[1].Duration
DurationOut == csvfile.rows[1].Duration
DurationWritten == export_result.ended /\ csvfile.exists /\ Len(csvfile.rows) = 1

IsDigit(c) == \E k \in 1..10 : DigitChars[k] = c
DigitValue(c) == (CHOOSE k \in 1..10 : DigitChars[k] = c) - 1

\* the number a sequence of digit characters denotes
RECURSIVE Value(_)
Value(cs) == IF cs = <<>> THEN 0
             ELSE 10 * Value(SubSeq(cs, 1, Len(cs) - 1)) + DigitValue(cs[Len(cs)])

\* how many decimal digits n >= 0 has
RECURSIVE NumDigits(_)
NumDigits(n) == IF n < 10 THEN 1 ELSE 1 + NumDigits(n \div 10)

\* cs is exactly two digits denoting n
TwoDigits(cs, n) ==
    Len(cs) = 2 /\ IsDigit(cs[1]) /\ IsDigit(cs[2]) /\ Value(cs) = n

\* C6 (as claimed): for every integer duration d >= 0, 360000 and above
\* included, the column is HH:MM:SS with HH = d div 3600, MM = (d mod 3600)
\* div 60, SS = d mod 60, each exactly two zero-padded digits.
C6_Original ==
    DurationWritten =>
        /\ Len(DurationOut) = 8
        /\ DurationOut[3] = ":" /\ DurationOut[6] = ":"
        /\ TwoDigits(SubSeq(DurationOut, 1, 2), DurationIn \div 3600)
        /\ TwoDigits(SubSeq(DurationOut, 4, 5), (DurationIn % 3600) \div 60)
        /\ TwoDigits(SubSeq(DurationOut, 7, 8), DurationIn % 60)

\* C6 (amended): the column is H:MM:SS where MM and SS are exactly two
\* zero-padded digits and H is d div 3600 in decimal, zero-padded to two
\* digits when below 10 and written with all its digits (three or more, no
\* leading zero) from 100 hours on; 3725 gives 01:02:05 and 0 gives 00:00:00.
C6_DurationFormat ==
    DurationWritten =>
        LET d == DurationIn
            out == DurationOut
            n == Len(out)
            hh == SubSeq(out, 1, n - 6)
        IN /\ n = Max(2, NumDigits(d \div 3600)) + 6
           /\ out[n - 5] = ":" /\ out[n - 2] = ":"
           /\ \A i \in 1..Len(hh) : IsDigit(hh[i])
           /\ Value(hh) = d \div 3600
           /\ (Len(hh) > 2 => hh[1] # "0")
           /\ TwoDigits(SubSeq(out, n - 4, n - 3), (d % 3600) \div 60)
           /\ TwoDigits(SubSeq(out, n - 1, n), d % 60)
           /\ (d = 3725 => out = <<"0", "1", ":", "0", "2", ":", "0", "5">>)
           /\ (d = 0 => out = <<"0", "0", ":", "0", "0", ":", "0", "0">>)

\* a duration of 101 h 2 min 5 s was written as 101:02:05
C6_Witness ==
    /\ DurationWritten
    /\ DurationIn = 101 * 3600 + 2 * 60 + 5
    /\ DurationOut = <<"1", "0", "1", ":", "0", "2", ":", "0", "5">>

(* C7: the token cache *)
\* C7 (as claimed): whatever token value the authenticator returned, once it
\* has returned one it is never invoked again.
C7_Original ==
    [][access_token # None => token_calls' = token_calls]_vars

\* C7 (amended): get-token is invoked at most once per call and not before
\* the first call; every page request is issued after a token was obtained and
\* carries the cached token; once a non-empty token is cached it is never
\* replaced and get-token is never invoked again.
C7_TokenCached ==
    /\ [](/\ token_calls <= calls
          /\ requests # <<>> =>
                /\ access_token # None
                /\ \A i \in 1..Len(requests) : requests[i].headers = Headers(access_token))
    /\ [][access_token \notin {None, ""} =>
             (token_calls' = token_calls /\ access_token' = access_token)]_vars

\* the second call issues a request with the token the first call obtained
C7_Witness ==
    /\ calls = 2
    /\ token_calls = 1
    /\ requests # <<>>
    /\ requests[1].headers = Headers("tokA")

(* C8: accumulated count against the declared total *)
InFetchLoop == pc \in {"loop", "waiting", "exit"}

\* C8 (as claimed): in every state of the fetch loop, for every server, the
\* accumulated count does not exceed the total most recently reported.
C8_Original ==
    (InFetchLoop /\ total_recordings # Unbound) => Len(all_recordings) <= total_recordings

\* C8 (amended): whenever the loop goes on to a further page the
\* accumulated count is strictly below the total most recently reported; only
\* the page that ends the loop can take the count past it.
C8_BelowTotalWhileContinuing ==
    (pc \in {"loop", "waiting"} /\ page_number > 1) =>
        /\ total_recordings # Unbound
        /\ Len(all_recordings) < total_recordings

\* page 2 is about to be requested with one recording out of a declared two
C8_Witness ==
    /\ pc = "loop"
    /\ page_number = 2
    /\ Len(all_recordings) = 1
    /\ total_recordings = 2

(* C9: the order of page requests *)
\* C9: pages are requested as 1, 2, 3, ... with page size 100, one at a time
\* and never twice; after page n is handled the loop goes on to request page
\* n + 1 exactly when page n was parsed, was not empty and left the
\* accumulated count below the total it declared.
C9_PageOrder ==
    /\ \A i \in 1..Len(requests) :
          requests[i].pageNumber = i /\ requests[i].pageSize = 100
    /\ (pc = "waiting" => page_number = Len(requests))
    /\ (pc = "loop" => page_number = Len(requests) + 1)
    /\ (pc \in {"loop", "exit"} /\ requests # <<>>) =>
          ((pc = "loop") <=>
              /\ Succeeded(last_response)
              /\ ResultsOf(last_response) # <<>>
              /\ Len(all_recordings) < DeclaredTotal(last_response))

\* the request for page 2 is in flight
C9_Witness ==
    /\ pc = "waiting"
    /\ Len(requests) = 2
    /\ requests[2].pageNumber = 2

(* C10: termination of the fetch loop *)
\* C10: with every declared total at most MaxTotal and every request
\* answered, a call issues at most max(1, MaxTotal) page requests and its
\* fetch loop ends.
C10_Terminates ==
    /\ [](Len(requests) <= Max(1, MaxTotal))
    /\ (pc \in {"loop", "waiting"}) ~> (pc = "exit")

\* the loop ended after as many requests as the bound allows
C10_Witness ==
    /\ pc = "exit"
    /\ Len(requests) = Max(1, MaxTotal)
    /\ stop = "complete"

====
